---- MODULE Spec2Model ----
(***************************************************************************)
(* Model of the SpheroBoltPlus session and packet codec (src/SBP_SDK.py).  *)
(*                                                                         *)
(* One action per public coroutine of the class, each awaited to           *)
(* completion, plus direct calls of the two codec helpers.  The BLE        *)
(* transport (bleak) is the environment: every transport call draws its    *)
(* outcome with \E.  A write on a client whose link is not open fails; a   *)
(* write on an open link may succeed, fail with an Exception, or be        *)
(* cancelled (asyncio.CancelledError, a BaseException that the handlers'   *)
(* "except Exception" clauses do not catch).                               *)
(*                                                                         *)
(* Spec: the session, every call awaited to completion.                    *)
(* CodecSpec: direct calls of the codec on a header and a payload.         *)
(* CommandSpec: one command call over a wider range of arguments.          *)
(* RaceSpec: wake() and disconnect() interleaved at their awaits.          *)
(***************************************************************************)
EXTENDS Integers, Sequences, FiniteSets, TLC

VARIABLES device,          \* self.device: 0 is None, else the id of a BleakClient
          characteristic,  \* self.characteristic: "None" or "char"
          is_connected,    \* self.is_connected
          is_awake,        \* self.is_awake
          links,           \* the clients whose transport connection is open
          call,            \* the last call: operation, arguments, transport outcomes, state before
          ret,             \* what the last call returned ("raised": an exception left the call)
          written,         \* the packets the last call handed to write_gatt_char, in order
          closed,          \* how many times the last call called device.disconnect()
          input,           \* the arguments CodecSpec and CommandSpec draw: <<header, payload>>, <<op, args...>>
          tasks            \* the wake() and disconnect() coroutines running concurrently: where each is

vars == <<device, characteristic, is_connected, is_awake, links, call, ret, written, closed, input,
          tasks>>

----------------------------------------------------------------------------
(* Bounds *)

\* number of BleakClient objects that can exist at once
MaxClients == 2
\* longest header and longest payload handed directly to the codec
MaxPart == 2

Clients == 1..MaxClients

\* byte values the direct codec calls draw from
ByteSamples == {0, 1, 128, 255}

\* arguments the command calls draw from: below, inside and above each range
SpeedArgs == {-1, 100, 300}
HeadingArgs == {-1, 300, 400}
CoordArgs == {-1, 10}
ColourArgs == {-1, 300}

RECURSIVE SeqsUpTo(_, _)
SeqsUpTo(S, n) ==
    IF n = 0 THEN {<<>>}
    ELSE LET shorter == SeqsUpTo(S, n - 1)
         IN  shorter \cup {Append(s, b) : s \in {t \in shorter : Len(t) = n - 1}, b \in S}

----------------------------------------------------------------------------
(* Packet codec *)

SOP == 141   \* 0x8D
EOP == 216   \* 0xD8

RECURSIVE BitAnd(_, _)
BitAnd(a, b) ==
    IF a = 0 \/ b = 0 THEN 0
    ELSE (a % 2) * (b % 2) + 2 * BitAnd(a \div 2, b \div 2)

RECURSIVE BitXor(_, _)
BitXor(a, b) ==
    IF a = 0 THEN b
    ELSE IF b = 0 THEN a
    ELSE (((a % 2) + (b % 2)) % 2) + 2 * BitXor(a \div 2, b \div 2)

RECURSIVE sum(_)
sum(data) == IF data = <<>> THEN 0 ELSE Head(data) + sum(Tail(data))

\* a plausible slip: the bits not inverted
_calculate_checksum_noinvert(data) == BitAnd(sum(data), 255)

\* a plausible slip: the "& 0xFF" left out
_calculate_checksum_nomask(data) == BitXor(sum(data), 255)

_calculate_checksum(data) ==
    LET checksum_sum == BitAnd(sum(data), 255)
    IN  BitXor(checksum_sum, 255)

\* a plausible slip: the checksum taken over the SOP byte as well
packet_cksum_sop(header, payload) ==
    <<SOP>> \o header \o payload \o <<_calculate_checksum(<<SOP>> \o header \o payload), EOP>>

\* the packet _send_command constructs
packet(header, payload) ==
    LET checksum == _calculate_checksum(header \o payload)
    IN  <<SOP>> \o header \o payload \o <<checksum, EOP>>

\* a plausible slip: a wrong checksum byte in the literal
wake_command_bad == <<141, 56, 17, 1, 19, 13, 255, 150, 215>>

\* bytearray([0x8D, 0x38, 0x11, 0x01, 0x13, 0x0D, 0xFF, 0x96, 0xD8])
wake_command == <<141, 56, 17, 1, 19, 13, 255, 150, 216>>

drive_header == <<56, 18, 1, 22, 7, 255>>     \* 38 12 01 16 07 FF
main_led_header == <<56, 17, 1, 32, 7, 255>>  \* 38 11 01 20 07 FF
matrix_header == <<56, 17, 1, 45, 9, 255>>    \* 38 11 01 2D 09 FF

min(a, b) == IF a < b THEN a ELSE b
max(a, b) == IF a > b THEN a ELSE b

\* struct.pack(">BHB", speed, heading, flags)
pack_BHB(speed, heading, flags) == <<speed, heading \div 256, heading % 256, flags>>

\* a plausible slip: the heading wrapped around instead of clamped
drive_payload_wrap(speed, heading, reverse) ==
    pack_BHB(max(0, min(255, speed)), heading % 360, IF reverse THEN 1 ELSE 0)

drive_payload(speed, heading, reverse) ==
    LET s == max(0, min(255, speed))
        h == max(0, min(359, heading))
        flags == IF reverse THEN 1 ELSE 0
    IN  pack_BHB(s, h, flags)

\* a plausible slip: negative values let through
main_led_payload_no_floor(red, green, blue) ==
    <<min(255, red), min(255, green), min(255, blue)>>

main_led_payload(red, green, blue) ==
    <<max(0, min(255, red)), max(0, min(255, green)), max(0, min(255, blue))>>

\* a plausible slip: the coordinates clamped to 0..8
matrix_led_payload_off_by_one(x, y, red, green, blue) ==
    <<max(0, min(8, x)), max(0, min(8, y)),
      max(0, min(255, red)), max(0, min(255, green)), max(0, min(255, blue))>>

matrix_led_payload(x, y, red, green, blue) ==
    <<max(0, min(7, x)), max(0, min(7, y)),
      max(0, min(255, red)), max(0, min(255, green)), max(0, min(255, blue))>>

----------------------------------------------------------------------------
(* Transport *)

\* self.client(address): a new client object, distinct from the bound one
\* and from every client whose link is still open (constructing the object
\* does no I/O and is taken to succeed on every platform branch)
FreeClients == Clients \ (links \cup {device})
NewClient == CHOOSE c \in FreeClients : \A d \in FreeClients : c <= d

\* outcomes of write_gatt_char on client d
WriteOutcomes(d) == IF d \in links THEN {"ok", "fail", "cancel"} ELSE {"fail"}

\* no coroutine is running concurrently
\* pc: "idle", "awaiting" (suspended at its transport await), "ready" (the
\* transport call has completed, the coroutine has not resumed yet), "done"
NoTasks == [wake |-> [pc |-> "idle", write |-> "-", ret |-> "None"],
            disconnect |-> [pc |-> "idle", close |-> "-", ret |-> "None"]]

NoEnv == [open |-> "-", services |-> "-", char |-> "-", close |-> "-", write |-> "-"]

Pre == [device |-> device, characteristic |-> characteristic,
        is_connected |-> is_connected, is_awake |-> is_awake, links |-> links]

----------------------------------------------------------------------------
(* Session *)

Init ==
    /\ device = 0
    /\ characteristic = "None"
    /\ is_connected = FALSE
    /\ is_awake = FALSE
    /\ links = {}
    /\ call = [op |-> "__init__", args |-> <<>>, env |-> NoEnv,
               pre |-> [device |-> 0, characteristic |-> "None",
                        is_connected |-> FALSE, is_awake |-> FALSE, links |-> {}]]
    /\ ret = "None"
    /\ written = <<>>
    /\ closed = 0
    /\ input = <<<<>>, <<>>>>
    /\ tasks = NoTasks

\* a plausible slip: the flag set before the write is awaited
wake_is_awake_early(wr, awake) == TRUE

\* a plausible slip: the flag never set
wake_is_awake_never(wr, awake) == awake

\* self.is_awake after wake() whose write had outcome wr
\* ("none": self.device is None, the attribute lookup raises AttributeError)
wake_is_awake(wr, awake) == IF wr = "ok" THEN TRUE ELSE awake

\* what wake() returns
wake_ret(wr) ==
    CASE wr = "ok" -> "True"
      [] wr = "cancel" -> "raised"
      [] OTHER -> "False"

\* the packets wake() hands to the transport
wake_written(wr) == IF wr = "none" THEN <<>> ELSE <<wake_command>>

Wake(wr) ==
    /\ wr \in (IF device = 0 THEN {"none"} ELSE WriteOutcomes(device))
    /\ call' = [op |-> "wake", args |-> <<>>, env |-> [NoEnv EXCEPT !.write = wr], pre |-> Pre]
    /\ is_awake' = wake_is_awake(wr, is_awake)
    /\ ret' = wake_ret(wr)
    /\ written' = wake_written(wr)
    /\ closed' = 0
    /\ UNCHANGED <<device, characteristic, is_connected, links, input, tasks>>

\* the outcomes of the transport calls one connect() makes, in order:
\* device.connect, device.get_services, the search for the API
\* characteristic, device.disconnect (only when it was not found) and the
\* write of the chained wake() (only when it was found); "-": not reached
ConnectEnvs ==
    {e \in [open : {"ok", "fail"}, services : {"-", "ok", "fail"},
            char : {"-", "found", "missing"}, close : {"-", "ok", "fail"},
            write : {"-", "ok", "fail", "cancel"}] :
        /\ (e.services = "-") <=> (e.open # "ok")
        /\ (e.char = "-") <=> (e.services # "ok")
        /\ (e.close = "-") <=> (e.char # "missing")
        /\ (e.write = "-") <=> (e.char # "found")}

\* self.is_connected when connect() is left
connect_is_connected(e, conn) ==
    CASE e.char = "found" -> TRUE                            \* line 304
      [] e.char = "missing" /\ e.close = "ok" -> conn          \* lines 296-302: flag not touched
      [] OTHER -> FALSE                                      \* lines 312-315

\* what connect() returns
connect_ret(e) ==
    CASE e.char = "found" /\ e.write = "cancel" -> "raised"  \* CancelledError leaves wake() and connect()
      [] e.char = "found" -> "True"                          \* the result of wake() is not looked at
      [] OTHER -> "False"

Connect(e) ==
    /\ FreeClients # {}
    /\ e \in ConnectEnvs
    /\ LET c == NewClient IN
        /\ device' = c
        /\ links' = IF e.open = "ok" /\ e.close # "ok" THEN links \cup {c} ELSE links
    /\ characteristic' = CASE e.char = "found" -> "char"
                           [] e.char = "missing" -> "None"
                           [] OTHER -> characteristic
    /\ is_connected' = connect_is_connected(e, is_connected)
    /\ is_awake' = IF e.char = "found" THEN wake_is_awake(e.write, is_awake) ELSE is_awake
    /\ ret' = connect_ret(e)
    /\ written' = IF e.char = "found" THEN wake_written(e.write) ELSE <<>>
    /\ closed' = IF e.close = "-" THEN 0 ELSE 1
    /\ call' = [op |-> "connect", args |-> <<>>, env |-> e, pre |-> Pre]
    /\ UNCHANGED <<input, tasks>>

\* a plausible slip: the early return left out
disconnect_outcomes_no_guard(conn) == {"ok", "fail"}

\* the outcomes of device.disconnect() inside disconnect(); "-": not
\* called, the early return at lines 324-325 is taken
disconnect_outcomes(conn) == IF conn THEN {"ok", "fail"} ELSE {"-"}

\* disconnect(): cl is the outcome of device.disconnect()
Disconnect(cl) ==
    /\ cl \in disconnect_outcomes(is_connected)
    /\ call' = [op |-> "disconnect", args |-> <<>>, env |-> [NoEnv EXCEPT !.close = cl], pre |-> Pre]
    /\ closed' = IF cl = "-" THEN 0 ELSE 1
    /\ written' = <<>>
    /\ IF cl = "ok"
       THEN /\ links' = links \ {device}
            /\ is_connected' = FALSE
            /\ is_awake' = FALSE
            /\ ret' = "True"
       ELSE /\ UNCHANGED <<links, is_connected, is_awake>>
            /\ ret' = IF cl = "-" THEN "True" ELSE "False"
    /\ UNCHANGED <<device, characteristic, input, tasks>>

\* a plausible slip: success reported from the except branch as well
send_ret_optimistic(conn, wr) ==
    CASE ~conn -> "False"
      [] wr = "cancel" -> "raised"
      [] OTHER -> "True"

\* what _send_command returns; wr is the outcome of its write
send_ret(conn, wr) ==
    CASE ~conn -> "False"
      [] wr = "ok" -> "True"
      [] wr = "cancel" -> "raised"
      [] OTHER -> "False"

\* the packets _send_command hands to the transport
send_written(conn, header, payload) ==
    IF ~conn THEN <<>> ELSE <<packet(header, payload)>>

\* a plausible slip: a failed write puts the session back to sleep
_send_command_sleep_on_failure(op, args, header, payload) ==
    \E wr \in (IF is_connected THEN WriteOutcomes(device) ELSE {"-"}) :
    /\ call' = [op |-> op, args |-> args, env |-> [NoEnv EXCEPT !.write = wr], pre |-> Pre]
    /\ ret' = send_ret(is_connected, wr)
    /\ written' = send_written(is_connected, header, payload)
    /\ closed' = 0
    /\ is_awake' = IF wr = "fail" THEN FALSE ELSE is_awake
    /\ UNCHANGED <<device, characteristic, is_connected, links, input, tasks>>

\* _send_command(header, payload), called by operation op with arguments args
_send_command(op, args, header, payload) ==
    \E wr \in (IF is_connected THEN WriteOutcomes(device) ELSE {"-"}) :
    /\ call' = [op |-> op, args |-> args, env |-> [NoEnv EXCEPT !.write = wr], pre |-> Pre]
    /\ ret' = send_ret(is_connected, wr)
    /\ written' = send_written(is_connected, header, payload)
    /\ closed' = 0
    /\ UNCHANGED <<device, characteristic, is_connected, is_awake, links, input, tasks>>

\* the guard's early return
Rejected(op, args) ==
    /\ call' = [op |-> op, args |-> args, env |-> NoEnv, pre |-> Pre]
    /\ ret' = "False"
    /\ written' = <<>>
    /\ closed' = 0
    /\ UNCHANGED <<device, characteristic, is_connected, is_awake, links, input, tasks>>

\* a plausible slip: the guard forgets the power state
drive_rejected_conn_only(conn, awake) == ~conn

drive_rejected(conn, awake) == ~conn \/ ~awake
main_led_rejected(conn, awake) == ~conn \/ ~awake
matrix_led_rejected(conn, awake) == ~conn \/ ~awake

Drive(speed, heading, reverse) ==
    IF drive_rejected(is_connected, is_awake)
    THEN Rejected("drive", <<speed, heading, reverse>>)
    ELSE _send_command("drive", <<speed, heading, reverse>>,
                       drive_header, drive_payload(speed, heading, reverse))

SetMainLed(red, green, blue) ==
    IF main_led_rejected(is_connected, is_awake)
    THEN Rejected("set_main_led", <<red, green, blue>>)
    ELSE _send_command("set_main_led", <<red, green, blue>>,
                       main_led_header, main_led_payload(red, green, blue))

SetMatrixLed(x, y, red, green, blue) ==
    IF matrix_led_rejected(is_connected, is_awake)
    THEN Rejected("set_matrix_led", <<x, y, red, green, blue>>)
    ELSE _send_command("set_matrix_led", <<x, y, red, green, blue>>,
                       matrix_header, matrix_led_payload(x, y, red, green, blue))

Next ==
    \/ \E e \in ConnectEnvs : Connect(e)
    \/ \E cl \in {"-", "ok", "fail"} : Disconnect(cl)
    \/ \E wr \in {"none", "ok", "fail", "cancel"} : Wake(wr)
    \/ \E speed \in SpeedArgs, heading \in HeadingArgs, reverse \in BOOLEAN :
          Drive(speed, heading, reverse)
    \/ \E red \in ColourArgs, green \in ColourArgs, blue \in ColourArgs :
          SetMainLed(red, green, blue)
    \/ \E x \in CoordArgs, y \in CoordArgs, red \in ColourArgs, green \in ColourArgs,
          blue \in ColourArgs :
          SetMatrixLed(x, y, red, green, blue)

Spec == Init /\ [][Next]_vars

----------------------------------------------------------------------------
(* Direct calls of the codec *)

\* a session as connect() leaves it when every transport call succeeded
ConnectedAwake ==
    /\ device = 1
    /\ characteristic = "char"
    /\ is_connected = TRUE
    /\ is_awake = TRUE
    /\ links = {1}

\* a session as __init__ leaves it
Fresh ==
    /\ device = 0
    /\ characteristic = "None"
    /\ is_connected = FALSE
    /\ is_awake = FALSE
    /\ links = {}

\* the header and payload the literal wake frame is made of: 38 11 01 13 and 0D FF
WakeParts == << <<56, 17, 1, 19>>, <<13, 255>> >>

InitCodec ==
    /\ Fresh \/ ConnectedAwake
    /\ input \in (SeqsUpTo(ByteSamples, MaxPart) \X SeqsUpTo(ByteSamples, MaxPart)) \cup {WakeParts}
    /\ call = [op |-> "__init__", args |-> <<>>, env |-> NoEnv,
               pre |-> [device |-> 0, characteristic |-> "None",
                        is_connected |-> FALSE, is_awake |-> FALSE, links |-> {}]]
    /\ ret = "None"
    /\ written = <<>>
    /\ closed = 0
    /\ tasks = NoTasks

\* self._send_command(header, payload)
SendCommandCall ==
    _send_command("_send_command", input, input[1], input[2])

\* self._calculate_checksum(header + payload)
CalculateChecksumCall ==
    /\ call' = [op |-> "_calculate_checksum", args |-> <<input[1] \o input[2]>>,
                env |-> NoEnv, pre |-> Pre]
    /\ ret' = _calculate_checksum(input[1] \o input[2])
    /\ written' = <<>>
    /\ closed' = 0
    /\ UNCHANGED <<device, characteristic, is_connected, is_awake, links, input, tasks>>

NextCodec ==
    \/ SendCommandCall
    \/ CalculateChecksumCall

CodecSpec == InitCodec /\ [][NextCodec]_vars

----------------------------------------------------------------------------
(* Command calls over a wider range of arguments *)

\* arguments at, next to and beyond the bounds of each range
WideSpeeds == {-1, 0, 128, 255, 256, 300}
WideHeadings == {-1, 0, 255, 256, 359, 360, 400}
WideCoords == {-1, 0, 7, 8, 10}
WideColours == {-1, 0, 128, 255, 256, 300}
MatrixColours == {-1, 128, 300}

\* one command call: its name and its arguments
CommandInputs ==
    ({"drive"} \X WideSpeeds \X WideHeadings \X BOOLEAN)
    \cup ({"set_main_led"} \X WideColours \X WideColours \X WideColours)
    \cup ({"set_matrix_led"} \X WideCoords \X WideCoords
              \X MatrixColours \X MatrixColours \X MatrixColours)

InitCommand ==
    /\ Fresh \/ ConnectedAwake
    /\ input \in CommandInputs
    /\ call = [op |-> "__init__", args |-> <<>>, env |-> NoEnv,
               pre |-> [device |-> 0, characteristic |-> "None",
                        is_connected |-> FALSE, is_awake |-> FALSE, links |-> {}]]
    /\ ret = "None"
    /\ written = <<>>
    /\ closed = 0
    /\ tasks = NoTasks

DriveCall == input[1] = "drive" /\ Drive(input[2], input[3], input[4])

SetMainLedCall == input[1] = "set_main_led" /\ SetMainLed(input[2], input[3], input[4])

SetMatrixLedCall ==
    input[1] = "set_matrix_led" /\ SetMatrixLed(input[2], input[3], input[4], input[5], input[6])

NextCommand ==
    \/ DriveCall
    \/ SetMainLedCall
    \/ SetMatrixLedCall

CommandSpec == InitCommand /\ [][NextCommand]_vars

----------------------------------------------------------------------------
(* wake() and disconnect() running concurrently on one session *)

\* Each coroutine runs without interruption up to its one await and again
\* from there to its return.  The transport completes the call it was
\* handed at some later moment, and the event loop resumes the coroutine
\* at some moment after that: other coroutines may run in between.

\* a session as connect() leaves it when only the write of its wake failed
ConnectedAsleep ==
    /\ device = 1
    /\ characteristic = "char"
    /\ is_connected = TRUE
    /\ is_awake = FALSE
    /\ links = {1}

InitRace ==
    /\ Fresh \/ ConnectedAwake \/ ConnectedAsleep
    /\ input = <<<<>>, <<>>>>
    /\ call = [op |-> "__init__", args |-> <<>>, env |-> NoEnv,
               pre |-> [device |-> 0, characteristic |-> "None",
                        is_connected |-> FALSE, is_awake |-> FALSE, links |-> {}]]
    /\ ret = "None"
    /\ written = <<>>
    /\ closed = 0
    /\ tasks = NoTasks

Atomic == <<call, ret, written, closed, input>>

\* wake() is called and runs to "await self.device.write_gatt_char(...)";
\* with self.device None the attribute lookup raises and wake returns at once
WakeStart ==
    /\ tasks.wake.pc \in {"idle", "done"}
    /\ tasks' = [tasks EXCEPT !.wake =
                    IF device = 0
                    THEN [pc |-> "done", write |-> "none", ret |-> wake_ret("none")]
                    ELSE [pc |-> "awaiting", write |-> "pending", ret |-> "None"]]
    /\ UNCHANGED <<device, characteristic, is_connected, is_awake, links, Atomic>>

\* the transport completes the write wake() is waiting for
WriteComplete(wr) ==
    /\ tasks.wake.pc = "awaiting"
    /\ wr \in WriteOutcomes(device)
    /\ tasks' = [tasks EXCEPT !.wake.pc = "ready", !.wake.write = wr]
    /\ UNCHANGED <<device, characteristic, is_connected, is_awake, links, Atomic>>

\* wake() resumes after its await and runs to its return
WakeResume ==
    /\ tasks.wake.pc = "ready"
    /\ is_awake' = wake_is_awake(tasks.wake.write, is_awake)
    /\ tasks' = [tasks EXCEPT !.wake.pc = "done", !.wake.ret = wake_ret(tasks.wake.write)]
    /\ UNCHANGED <<device, characteristic, is_connected, links, Atomic>>

\* disconnect() is called and runs to "await self.device.disconnect()", or
\* returns True at once when the session is not connected
DisconnectStart ==
    /\ tasks.disconnect.pc \in {"idle", "done"}
    /\ tasks' = [tasks EXCEPT !.disconnect =
                    IF disconnect_outcomes(is_connected) = {"-"}
                    THEN [pc |-> "done", close |-> "-", ret |-> "True"]
                    ELSE [pc |-> "awaiting", close |-> "pending", ret |-> "None"]]
    /\ UNCHANGED <<device, characteristic, is_connected, is_awake, links, Atomic>>

\* the transport completes the close disconnect() is waiting for
CloseComplete(cl) ==
    /\ tasks.disconnect.pc = "awaiting"
    /\ cl \in {"ok", "fail"}
    /\ links' = IF cl = "ok" THEN links \ {device} ELSE links
    /\ tasks' = [tasks EXCEPT !.disconnect.pc = "ready", !.disconnect.close = cl]
    /\ UNCHANGED <<device, characteristic, is_connected, is_awake, Atomic>>

\* disconnect() resumes after its await and runs to its return
DisconnectResume ==
    /\ tasks.disconnect.pc = "ready"
    /\ IF tasks.disconnect.close = "ok"
       THEN /\ is_connected' = FALSE
            /\ is_awake' = FALSE
            /\ tasks' = [tasks EXCEPT !.disconnect.pc = "done", !.disconnect.ret = "True"]
       ELSE /\ UNCHANGED <<is_connected, is_awake>>
            /\ tasks' = [tasks EXCEPT !.disconnect.pc = "done", !.disconnect.ret = "False"]
    /\ UNCHANGED <<device, characteristic, links, Atomic>>

NextRace ==
    \/ WakeStart
    \/ \E wr \in {"ok", "fail", "cancel"} : WriteComplete(wr)
    \/ WakeResume
    \/ DisconnectStart
    \/ \E cl \in {"ok", "fail"} : CloseComplete(cl)
    \/ DisconnectResume

RaceSpec == InitRace /\ [][NextRace]_vars

----------------------------------------------------------------------------
(* Properties *)

Commands == {"drive", "set_main_led", "set_matrix_led"}

\* the call left the session's fields as it found them
SessionAsBefore ==
    /\ device = call.pre.device
    /\ characteristic = call.pre.characteristic
    /\ is_connected = call.pre.is_connected
    /\ is_awake = call.pre.is_awake

\* connect() got past transport open and characteristic resolution
ConnectResolved == call.op = "connect" /\ call.env.open = "ok" /\ call.env.char = "found"

\* C1: between calls the session is never awake while not connected:
\* is_awake = True implies is_connected = True.
C1_AwakeImpliesConnected == is_awake => is_connected

\* C2: drive, set_main_led or set_matrix_led on a session that is not
\* connected, or connected and not awake, returns False, hands nothing to
\* the transport and leaves the session as it was.
C2_GuardRejects ==
    (call.op \in Commands /\ ~(call.pre.is_connected /\ call.pre.is_awake))
        => /\ ret = "False"
           /\ written = <<>>
           /\ closed = 0
           /\ links = call.pre.links
           /\ SessionAsBefore

\* drive was called on a connected session that is asleep
C2_Witness ==
    /\ call.op = "drive"
    /\ call.pre.is_connected /\ ~call.pre.is_awake
    /\ ret = "False"

\* C3 as stated: whenever transport open and characteristic resolution
\* succeed, the session is connected and awake when connect returns.
C3_Original ==
    (ConnectResolved /\ ret # "raised") => (is_connected /\ is_awake)

\* C3 amended: when transport open, characteristic resolution and the write
\* of the chained wake all succeed, connect returns True with the session
\* connected and awake; when that write fails, connect still returns True
\* with the session connected and the power state as it was before.
C3_ConnectedAwakeWhenWakeWritten ==
    /\ (ConnectResolved /\ call.env.write = "ok")
          => (ret = "True" /\ is_connected /\ is_awake)
    /\ (ConnectResolved /\ call.env.write = "fail")
          => (ret = "True" /\ is_connected /\ is_awake = call.pre.is_awake)

\* a connect from a disconnected, sleeping session whose every transport call succeeded
C3_Witness ==
    /\ ConnectResolved /\ call.env.write = "ok"
    /\ ~call.pre.is_connected /\ ~call.pre.is_awake
    /\ is_connected /\ is_awake

\* C4: a connect that fails at transport open, at service discovery or
\* because the control characteristic is not found returns False (it does
\* not raise) and leaves the session not connected, whatever the state before.
C4_FailedConnectDisconnected ==
    (call.op = "connect"
       /\ (call.env.open = "fail" \/ call.env.services = "fail" \/ call.env.char = "missing"))
        => (ret = "False" /\ ~is_connected)

\* C5: of two disconnect calls in a row, both return True and the session
\* is not connected afterwards.
C5_DisconnectTwice ==
    [][(call.op = "disconnect" /\ call'.op = "disconnect")
         => (ret = "True" /\ ret' = "True" /\ ~is_connected')]_vars

\* C6: wake returns True exactly when its write succeeded, and then the
\* session is awake; when the write failed (or could not be attempted) it
\* returns False and is_awake and is_connected are as before the call.
C6_WakeFollowsWrite ==
    call.op = "wake"
        => /\ (ret = "True") <=> (call.env.write = "ok")
           /\ call.env.write = "ok" => is_awake
           /\ call.env.write \in {"fail", "none"}
                 => /\ ret = "False"
                    /\ is_awake = call.pre.is_awake
                    /\ is_connected = call.pre.is_connected

\* wake on a connected, sleeping session whose write failed
C6_Witness ==
    /\ call.op = "wake" /\ call.env.write = "fail"
    /\ call.pre.is_connected /\ ~call.pre.is_awake
    /\ written = <<wake_command>>
    /\ ret = "False" /\ ~is_awake

\* C7: wake on a session that is not connected returns False, hands
\* nothing to the transport and leaves is_awake as it was.
C7_WakeRejectedWhenNotConnected ==
    (call.op = "wake" /\ ~call.pre.is_connected)
        => (ret = "False" /\ written = <<>> /\ is_awake = call.pre.is_awake)

\* C8 as stated: a connect that gets past transport open and
\* characteristic resolution makes exactly two transport writes, each of
\* them the wake frame.
C8_Original ==
    ConnectResolved
        => /\ Len(written) = 2
           /\ \A i \in 1..Len(written) : written[i] = <<141, 56, 17, 1, 19, 13, 255, 150, 216>>

\* C8 amended: a connect that gets past transport open and characteristic
\* resolution makes exactly one transport write, and it is the wake frame
\* 8D 38 11 01 13 0D FF 96 D8.
C8_ConnectWritesWakeOnce ==
    ConnectResolved => written = << <<141, 56, 17, 1, 19, 13, 255, 150, 216>> >>

\* a connect whose chained wake write failed: it was written once and not retried
C8_Witness ==
    /\ ConnectResolved /\ call.env.write = "fail"
    /\ Len(written) = 1
    /\ ret = "True"

\* bit i of the non-negative integer n
Bit(n, i) == (n \div (2 ^ i)) % 2

\* C9: _calculate_checksum(d) is the modulo-256 sum of the bytes of d with
\* each of its 8 bits inverted (XOR 0xFF), a value in 0..255 that is fixed by d.
C9_Checksum ==
    call.op = "_calculate_checksum"
        => LET d == call.args[1]
               low == sum(d) % 256
           IN  /\ ret \in 0..255
               /\ \A i \in 0..7 : Bit(ret, i) = 1 - Bit(low, i)
               /\ ret = 255 - low

\* a checksum of bytes whose sum does not fit in 8 bits
C9_Witness ==
    /\ call.op = "_calculate_checksum"
    /\ sum(call.args[1]) > 255
    /\ ret \in 0..255

\* C10: the packet _send_command writes for header h and payload p is
\* 0x8D, h, p, the checksum of h ++ p, 0xD8: len(h) + len(p) + 3 bytes.
C10_PacketLayout ==
    (call.op = "_send_command" /\ call.pre.is_connected)
        => /\ Len(written) = 1
           /\ LET pkt == written[1]
                  h == call.args[1]
                  p == call.args[2]
                  n == Len(h) + Len(p) + 3
              IN  /\ Len(pkt) = n
                  /\ pkt[1] = 141
                  /\ pkt[n] = 216
                  /\ SubSeq(pkt, 2, Len(h) + 1) = h
                  /\ SubSeq(pkt, Len(h) + 2, Len(h) + Len(p) + 1) = p
                  /\ pkt[n - 1] = 255 - (sum(h \o p) % 256)

\* _send_command wrote a packet with a non-empty header and payload
C10_Witness ==
    /\ call.op = "_send_command"
    /\ Len(call.args[1]) > 0 /\ Len(call.args[2]) > 0
    /\ ret = "True"
    /\ Len(written) = 1 /\ Len(written[1]) = Len(call.args[1]) + Len(call.args[2]) + 3

\* C11: framing header 38 11 01 13 with payload 0D FF through
\* _calculate_checksum and _send_command gives checksum 0x96 and the very
\* packet wake() sends, 8D 38 11 01 13 0D FF 96 D8.
C11_WakeFrameFromCodec ==
    /\ (call.op = "_calculate_checksum" /\ call.args[1] = <<56, 17, 1, 19, 13, 255>>)
          => ret = 150
    /\ (call.op = "_send_command" /\ call.pre.is_connected
            /\ call.args = << <<56, 17, 1, 19>>, <<13, 255>> >>)
          => /\ written = <<wake_command>>
             /\ written[1] = <<141, 56, 17, 1, 19, 13, 255, 150, 216>>

\* _send_command framed the wake header and payload and the write went through
C11_Witness ==
    /\ call.op = "_send_command"
    /\ call.args = << <<56, 17, 1, 19>>, <<13, 255>> >>
    /\ ret = "True"
    /\ Len(written) = 1 /\ written[1][8] = 150

\* the nearest value to v in lo..hi
Clamp(v, lo, hi) == IF v < lo THEN lo ELSE IF v > hi THEN hi ELSE v

\* the frame around the bytes body: SOP, body, checksum of body, EOP
FrameOf(body) == <<141>> \o body \o <<255 - (sum(body) % 256), 216>>

\* the call passed the guard: it was made in CONNECTED_AWAKE
InAwake == call.pre.is_connected /\ call.pre.is_awake

\* C12: drive(speed, heading, reverse) in CONNECTED_AWAKE writes the frame
\* that drive(clamp(speed,0,255), clamp(heading,0,359), reverse) writes:
\* header 38 12 01 16 07 FF, then speed', heading' div 256, heading' mod 256
\* and 1 or 0 for reverse; drive(300, 400, false) writes what
\* drive(255, 359, false) writes.
C12_DriveFrame ==
    (call.op = "drive" /\ InAwake)
        => LET s == Clamp(call.args[1], 0, 255)
               h == Clamp(call.args[2], 0, 359)
               f == IF call.args[3] THEN 1 ELSE 0
           IN  /\ written = <<FrameOf(<<56, 18, 1, 22, 7, 255, s, h \div 256, h % 256, f>>)>>
               /\ written = <<packet(drive_header, drive_payload(s, h, call.args[3]))>>
               /\ call.args = <<300, 400, FALSE>>
                     => written[1] = <<141, 56, 18, 1, 22, 7, 255, 255, 1, 103, 0, 49, 216>>

\* drive(300, 400, false) was written in CONNECTED_AWAKE
C12_Witness ==
    /\ call.op = "drive" /\ InAwake
    /\ call.args = <<300, 400, FALSE>>
    /\ ret = "True"
    /\ Len(written) = 1 /\ written[1][8] = 255

\* C13: set_matrix_led in CONNECTED_AWAKE writes header 38 11 01 2D 09 FF
\* and the payload clamp(x,0,7), clamp(y,0,7), clamp(red,0,255),
\* clamp(green,0,255), clamp(blue,0,255); x = 10, y = -1 goes out as 7, 0.
C13_MatrixFrame ==
    (call.op = "set_matrix_led" /\ InAwake)
        => LET x == Clamp(call.args[1], 0, 7)
               y == Clamp(call.args[2], 0, 7)
               r == Clamp(call.args[3], 0, 255)
               g == Clamp(call.args[4], 0, 255)
               b == Clamp(call.args[5], 0, 255)
           IN  /\ written = <<FrameOf(<<56, 17, 1, 45, 9, 255, x, y, r, g, b>>)>>
               /\ (call.args[1] = 10 /\ call.args[2] = -1)
                     => (written[1][8] = 7 /\ written[1][9] = 0)

\* set_matrix_led(10, -1, ...) was written in CONNECTED_AWAKE
C13_Witness ==
    /\ call.op = "set_matrix_led" /\ InAwake
    /\ call.args[1] = 10 /\ call.args[2] = -1
    /\ ret = "True"
    /\ Len(written) = 1 /\ Len(written[1]) = 14

\* C20: set_main_led in CONNECTED_AWAKE writes header 38 11 01 20 07 FF and
\* the payload clamp(red,0,255), clamp(green,0,255), clamp(blue,0,255), and
\* returns True whenever the write succeeds, whatever the arguments.
C20_MainLedFrame ==
    (call.op = "set_main_led" /\ InAwake)
        => LET r == Clamp(call.args[1], 0, 255)
               g == Clamp(call.args[2], 0, 255)
               b == Clamp(call.args[3], 0, 255)
           IN  /\ written = <<FrameOf(<<56, 17, 1, 32, 7, 255, r, g, b>>)>>
               /\ call.env.write = "ok" => ret = "True"

\* set_main_led with every argument out of range succeeded
C20_Witness ==
    /\ call.op = "set_main_led" /\ InAwake
    /\ call.args = <<-1, 300, 256>>
    /\ ret = "True"
    /\ written = <<FrameOf(<<56, 17, 1, 32, 7, 255, 0, 255, 255>>)>>

\* C14: a drive, set_main_led or set_matrix_led call in CONNECTED_AWAKE
\* hands exactly one packet to the transport, with no second attempt after
\* a failure, and returns True exactly when that write succeeded.
C14_OneWritePerCommand ==
    (call.op \in Commands /\ InAwake)
        => /\ Len(written) = 1
           /\ (ret = "True") <=> (call.env.write = "ok")
           /\ call.env.write = "fail" => ret = "False"

\* a drive in CONNECTED_AWAKE whose write failed: one packet, False returned
C14_Witness ==
    /\ call.op = "drive" /\ InAwake
    /\ call.env.write = "fail"
    /\ Len(written) = 1
    /\ ret = "False"

\* C15: when the write of wake, of a command or of the wake chained inside
\* connect is cancelled, the call returns False and is_connected and
\* is_awake are what they were before the call.
C15_CancelledWriteIsFailure ==
    call.env.write = "cancel"
        => /\ ret = "False"
           /\ is_connected = call.pre.is_connected
           /\ is_awake = call.pre.is_awake

\* C16: after a disconnect call made on a connected session, whether the
\* transport close succeeded or failed, the session is not connected and
\* not awake.
C16_DisconnectAlwaysReleases ==
    (call.op = "disconnect" /\ call.pre.is_connected)
        => (~is_connected /\ ~is_awake)

\* C17: between calls the session holds a transport handle only while it
\* is connected: is_connected = False implies self.device is None.
C17_HandleOnlyWhileConnected == ~is_connected => device = 0

\* C18: disconnect on a session that is not connected returns True, makes
\* no transport call, and leaves is_connected, is_awake and the handle as
\* they were.
C18_DisconnectNoOp ==
    (call.op = "disconnect" /\ ~call.pre.is_connected)
        => /\ ret = "True"
           /\ closed = 0
           /\ written = <<>>
           /\ links = call.pre.links
           /\ SessionAsBefore

\* disconnect was called on a session that had been connected and no longer is
C18_Witness ==
    /\ call.op = "disconnect"
    /\ ~call.pre.is_connected /\ call.pre.device # 0
    /\ ret = "True" /\ closed = 0

\* C19: drive, set_main_led and set_matrix_led leave is_connected and
\* is_awake as they were, whether the guard rejected the call, the write
\* succeeded or the write failed.
C19_CommandsKeepState ==
    call.op \in Commands
        => /\ is_connected = call.pre.is_connected
           /\ is_awake = call.pre.is_awake

\* a set_main_led in CONNECTED_AWAKE whose write failed left the session connected and awake
C19_Witness ==
    /\ call.op = "set_main_led" /\ InAwake
    /\ call.env.write = "fail" /\ ret = "False"
    /\ is_connected /\ is_awake

\* C21: once a call has returned with the session not connected, no
\* transport connection the session opened is still open; the session
\* never has more than one open connection.
C21_NoOpenLinkWhenDisconnected ==
    ret # "raised"
        => /\ ~is_connected => links = {}
           /\ Cardinality(links) <= 1

\* both concurrent calls have returned a value
BothReturned ==
    /\ tasks.wake.pc = "done" /\ tasks.wake.ret \in {"True", "False"}
    /\ tasks.disconnect.pc = "done" /\ tasks.disconnect.ret \in {"True", "False"}

\* C22: whatever the interleaving of a wake call and a disconnect call on
\* one session, once both have returned the session is not awake while
\* not connected.
C22_NoAwakeDisconnectedAfterRace ==
    BothReturned => ~(is_awake /\ ~is_connected)
====
